---- MODULE Spec2Model ----
(***************************************************************************)
(* bunslinger: the interactive prompt engine of src/src/index.ts (text,    *)
(* select, confirm, processStep, promptSteps) as a state machine.          *)
(*                                                                         *)
(* The program is single threaded: one action is one run-to-completion     *)
(* turn of the event loop (a call up to its first suspension, a keypress   *)
(* callback, the continuation of an await).  The terminal is modelled by   *)
(* the sequence of tokens written to it and by the flags of process.stdin. *)
(*                                                                         *)
(* The command line front end (createCLI in src/src/index.ts, createCommand *)
(* in src/unnamed/part_000) is a second state machine, SpecCLI, over the    *)
(* command objects, process.argv and the loop of parseAsync.                *)
(***************************************************************************)
EXTENDS Integers, Sequences, FiniteSets, TLC

\* ------------------------------------------------------------------ bounds
MaxChoices == 2      \* longest choice list that is enumerated
MaxKeys == 3         \* key events delivered during one run
MaxSteps == 2        \* longest step list that is enumerated
MaxArgv == 3         \* longest process.argv.slice(2) that is enumerated

\* ------------------------------------------------- escape sequences, keys
HideCursor == "ESC[?25l"
ShowCursor == "ESC[?25h"
ColumnStart == "ESC[0G"
CursorUp == "ESC[1A"
ClearLine == "ESC[2K"
ClearScreen == "ESC[2J"
CursorHome == "ESC[0f"

\* key.name of a keypress event; "space" stands for every other key
KeyNames == {"up", "down", "return", "space"}

\* ------------------------------------------------------------------ state
VARIABLES
    mode,           \* the entry point of the run: "steps" (promptSteps), or "select",
                    \* "text", "confirm" (that prompt called by a caller of its own),
                    \* "cli" (createCLI(config).run()), "command" (a command built
                    \* with createCommand and parsed by its caller)
    isTTY,          \* whether process.stdin is a terminal (setRawMode exists)
    alive,          \* "running", "killed" (signal), "crashed" (uncaught exception)
    steps,          \* config.steps
    pc,             \* position of promptSteps / of the caller of select
    stepIdx,        \* index of the step of the for loop (0 outside promptSteps)
    answers,        \* the answers record of promptSteps
    callerGot,      \* what promptSteps handed to its caller
    out,            \* everything written to process.stdout, in order
    rawMode,        \* process.stdin raw mode
    listener,       \* handleKeypress is subscribed to 'keypress'
    flowing,        \* process.stdin is resumed
    rlOpen,         \* steps whose readline interface is created and not closed
    selStep,        \* select: the step whose processStep called select (0: none)
    choices,        \* select: the choices argument
    initialIndex,   \* select: the initialIndex argument
    selectedIndex,  \* select: the closure variable selectedIndex
    selState,       \* select: idle, awaiting, resolving, rejecting, resolved, rejected, crashed
    keys,           \* select: names of the key events handled in this session
    nkeys,          \* key events delivered to process.stdin so far
    promise,        \* select: settlement of the promise awaited at line 118
    resolveCalls,   \* select: calls of resolve() in this session
    rawOffCalls,    \* select: completed setRawMode(false) calls of this session
    txt,            \* text: the arguments of the pending text() call
    txtState,       \* text: idle, awaiting, done
    linesRead,      \* text: the lines rl.question handed to the pending call
    outcome,        \* what the last text/select/confirm call handed to its caller
    argv,           \* process.argv.slice(2)
    cmds,           \* the command objects created so far: name -> its config
    target,         \* the command object whose parseAsync runs ("none": none yet)
    argi,           \* parseAsync: the loop variable i
    parsedArgs,     \* parseAsync: the record parsedArgs
    parsedOptions,  \* parseAsync: the record parsedOptions
    invoked,        \* the action handlers called so far, with their arguments
    cliPc           \* parseAsync: idle, built, parsing, done

vars == <<mode, isTTY, alive, steps, pc, stepIdx, answers, callerGot, out,
          rawMode, listener, flowing, rlOpen, selStep, choices,
          initialIndex, selectedIndex, selState, keys, nkeys, promise, resolveCalls,
          rawOffCalls, txt, txtState, linesRead, outcome, argv, cmds, target,
          argi, parsedArgs, parsedOptions, invoked, cliPc>>

termVars == <<out, rawMode, listener, flowing, rlOpen>>
selVars == <<selStep, choices, initialIndex, selectedIndex, selState, keys, nkeys,
            promise, resolveCalls, rawOffCalls>>
txtVars == <<txt, txtState, linesRead>>
orchVars == <<steps, stepIdx, answers, callerGot>>
cliVars == <<argv, cmds, target, argi, parsedArgs, parsedOptions, invoked, cliPc>>
envVars == <<mode, isTTY, alive>>

\* ---------------------------------------------------------------- helpers
Max(S) == CHOOSE x \in S : \A y \in S : y <= x

\* type Choice = { title, value }; choice i of a list
ChoiceTitles == <<"Red", "Blue", "Green", "Grey">>
ChoiceValues == <<"r", "b", "g", "y">>
Choice(i) == [title |-> ChoiceTitles[i], value |-> ChoiceValues[i]]
ChoiceList(n) == [i \in 1..n |-> Choice(i)]

\* step.name of the k-th declared step
StepNames == <<"name", "color", "ok", "extra">>
StepName(k) == StepNames[k]

\* tokens written by component `by` while step `k` is the step of the loop
Emit(o, toks, by, k) ==
    o \o [i \in 1..Len(toks) |-> [tok |-> toks[i], by |-> by, step |-> k]]

NoOutcome == [kind |-> "none"]
Value(v) == [kind |-> "value", val |-> v]
Failure(e) == [kind |-> "error", val |-> e]

\* the cursor-visibility sequence written last, "none" when none was written
CursorIdx(o) == {i \in DOMAIN o : o[i].tok \in {HideCursor, ShowCursor}}
LastCursor(o) == IF CursorIdx(o) = {} THEN "none" ELSE o[Max(CursorIdx(o))].tok

\* ------------------------------------------------------------ select menu
SetRawModeError == "TypeError: process.stdin.setRawMode is not a function"

\* renderChoices: column reset, then one line per choice, the selected one marked
renderChoices(chs, sel) ==
    <<ColumnStart>> \o [i \in 1..Len(chs) |-> IF i - 1 = sel THEN "line>" ELSE "line "]

\* mutation of clearChoices: one line is erased, whatever the list
clearChoicesOneLine(chs) == <<CursorUp, ClearLine>>

\* clearChoices: per choice, one cursor-up and one clear-line
clearChoices(chs) ==
    [i \in 1..(2 * Len(chs)) |-> IF i % 2 = 1 THEN CursorUp ELSE ClearLine]

\* mutation of NextIndex: the boundary tests are dropped
NextIndexUnguarded(name, sel, maxIndex) ==
    IF name = "up" THEN sel - 1
    ELSE IF name = "down" THEN sel + 1
    ELSE sel

\* mutation of NextIndex: the menu wraps around at the ends
NextIndexWrapping(name, sel, maxIndex) ==
    IF name = "up" THEN (IF sel > 0 THEN sel - 1 ELSE maxIndex)
    ELSE IF name = "down" THEN (IF sel < maxIndex THEN sel + 1 ELSE 0)
    ELSE sel

\* handleKeypress, the index it leaves for a key that is not 'return'
NextIndex(name, sel, maxIndex) ==
    IF name = "up" /\ sel > 0 THEN sel - 1
    ELSE IF name = "down" /\ sel < maxIndex THEN sel + 1
    ELSE sel

\* select(message, choices, initialIndex) from the call to its suspension at
\* line 118.  On a stdin that is not a terminal process.stdin.setRawMode is
\* undefined: the call at line 141 throws inside the promise executor, which
\* rejects the promise; the listener is never subscribed, nothing is rendered.
SelectEnter(chs, init, k) ==
    /\ selStep' = k
    /\ choices' = chs
    /\ initialIndex' = init
    /\ selectedIndex' = init
    /\ keys' = <<>>
    /\ UNCHANGED nkeys
    /\ resolveCalls' = 0
    /\ rawOffCalls' = 0
    /\ outcome' = NoOutcome
    /\ rlOpen' = rlOpen \cup {k}
    /\ flowing' = TRUE
    /\ IF isTTY
       THEN /\ rawMode' = TRUE
            /\ listener' = TRUE
            /\ out' = Emit(out, <<HideCursor, "message">> \o renderChoices(chs, init),
                           "select", k)
            /\ promise' = NoOutcome
            /\ selState' = "awaiting"
       ELSE /\ UNCHANGED <<rawMode, listener>>
            /\ out' = Emit(out, <<HideCursor, "message">>, "select", k)
            /\ promise' = Failure(SetRawModeError)
            /\ selState' = "rejecting"

\* mutation of cleanup: the keypress listener stays subscribed
cleanupKeepsListener ==
    /\ UNCHANGED listener
    /\ rawMode' = FALSE
    /\ rawOffCalls' = rawOffCalls + 1
    /\ flowing' = FALSE
    /\ rlOpen' = rlOpen \ {selStep}
    /\ out' = Emit(out, <<ShowCursor, "LF">>, "select", selStep)

\* cleanup (called by the 'return' branch of handleKeypress)
cleanup ==
    /\ listener' = FALSE
    /\ rawMode' = FALSE
    /\ rawOffCalls' = rawOffCalls + 1
    /\ flowing' = FALSE
    /\ rlOpen' = rlOpen \ {selStep}
    /\ out' = Emit(out, <<ShowCursor, "LF">>, "select", selStep)

\* mutation of handleKeypressNav: the redraw is skipped when the index stays
handleKeypressNavLazy(name) ==
    /\ name # "return"
    /\ selectedIndex' = NextIndex(name, selectedIndex, Len(choices) - 1)
    /\ keys' = Append(keys, name)
    /\ out' = IF selectedIndex' = selectedIndex
              THEN out
              ELSE Emit(out, clearChoices(choices) \o renderChoices(choices, selectedIndex'),
                        "select", selStep)
    /\ UNCHANGED <<rawMode, listener, flowing, rlOpen, promise, resolveCalls,
                   rawOffCalls, selState, alive>>

\* handleKeypress for 'up', 'down' and every key that is not 'return'
handleKeypressNav(name) ==
    /\ name # "return"
    /\ selectedIndex' = NextIndex(name, selectedIndex, Len(choices) - 1)
    /\ keys' = Append(keys, name)
    /\ out' = Emit(out, clearChoices(choices) \o renderChoices(choices, selectedIndex'),
                   "select", selStep)
    /\ UNCHANGED <<rawMode, listener, flowing, rlOpen, promise, resolveCalls,
                   rawOffCalls, selState, alive>>

\* handleKeypress for 'return': cleanup(), then resolve(choices[selectedIndex].value).
\* Reading .value of a missing element throws out of the event callback: an
\* uncaught exception, which ends the process; the promise stays pending.
handleKeypressReturn ==
    /\ cleanup
    /\ UNCHANGED <<selectedIndex, keys>>
    /\ IF selectedIndex + 1 \in DOMAIN choices
       THEN /\ resolveCalls' = resolveCalls + 1
            /\ promise' = IF promise.kind = "none"
                          THEN Value(choices[selectedIndex + 1].value)
                          ELSE promise
            /\ selState' = IF selState = "awaiting" THEN "resolving" ELSE selState
            /\ UNCHANGED alive
       ELSE /\ alive' = "crashed"
            /\ selState' = "crashed"
            /\ UNCHANGED <<promise, resolveCalls>>

\* a key event is delivered to process.stdin; handleKeypress runs only if
\* subscribed.  Events delivered while no select session exists reach no code
\* of this program and are left out.
KeyPress(name) ==
    /\ alive = "running"
    /\ pc # "idle"
    /\ listener \/ selState \in {"resolving", "resolved"}
    /\ nkeys < MaxKeys
    /\ nkeys' = nkeys + 1
    /\ IF listener
       THEN IF name = "return" THEN handleKeypressReturn ELSE handleKeypressNav(name)
       ELSE UNCHANGED <<termVars, selectedIndex, keys, promise, resolveCalls,
                        rawOffCalls, selState, alive>>
    /\ UNCHANGED <<selStep, choices, initialIndex, cliVars, mode, isTTY, pc, orchVars, txtVars,
                   outcome>>

\* the finally block of select, then the return (or throw) to the caller.  On a
\* stdin that is not a terminal setRawMode(false) throws as well: the rest of
\* the block is skipped and that error is what the caller receives.
SelectFinally ==
    /\ alive = "running"
    /\ selState \in {"resolving", "rejecting"}
    /\ IF isTTY
       THEN /\ rawMode' = FALSE
            /\ rawOffCalls' = rawOffCalls + 1
            /\ flowing' = FALSE
            /\ rlOpen' = rlOpen \ {selStep}
            /\ out' = Emit(out, <<ShowCursor>>, "select", selStep)
            /\ outcome' = promise
       ELSE /\ UNCHANGED <<rawMode, rawOffCalls, flowing, rlOpen, out>>
            /\ outcome' = Failure(SetRawModeError)
    /\ selState' = IF outcome'.kind = "value" THEN "resolved" ELSE "rejected"
    /\ UNCHANGED <<listener, selStep, choices, initialIndex, selectedIndex, keys,
                   nkeys, promise, resolveCalls, cliVars, envVars, pc, orchVars, txtVars>>

\* select called by a caller of its own (its arguments are the inputs)
CallSelect(n, init) ==
    /\ mode = "select"
    /\ alive = "running"
    /\ pc = "idle"
    /\ pc' = "await"
    /\ SelectEnter(ChoiceList(n), init, stepIdx)
    /\ UNCHANGED <<cliVars, envVars, orchVars, txtVars>>

\* the process is ended by a signal while a prompt is suspended; the program
\* registers no signal or exit handler, so no finally block runs
Interrupt ==
    /\ alive = "running"
    /\ selState = "awaiting" \/ txtState = "awaiting"
    /\ alive' = "killed"
    /\ UNCHANGED <<cliVars, mode, isTTY, pc, orchVars, termVars, selVars, txtVars, outcome>>

\* ------------------------------------------------------- text and confirm
\* lines the user may type (sequences of characters)
Lines == {<<>>, <<"Y">>, <<"n", "o">>, <<"b", "o", "b">>, <<" ", "y">>}

\* step.initial of a text step (<<>> stands for an absent or empty initial)
TextInitials == {<<>>, <<"b", "o", "b">>}

\* step.validate: absent, a function returning 'required' for an empty answer
\* and true otherwise, or a function returning false for every answer
Validators == {"none", "nonEmpty", "refuse"}
ValidationMessage == "required"

\* what the steps of a step list are given: lines typed, validators declared
StepLines == {<<>>, <<"Y">>}
StepValidators == {"none", "nonEmpty"}

NoText == [initial |-> <<>>, validate |-> "none", confirm |-> FALSE]

\* String.prototype.toLowerCase on the characters in use
LowerChar(c) == IF c = "Y" THEN "y" ELSE IF c = "N" THEN "n" ELSE c
toLowerCase(str) == [i \in 1..Len(str) |-> LowerChar(str[i])]
startsWith(str, c) == Len(str) >= 1 /\ str[1] = c

\* text(message, initial, validate) from the call to its suspension in rl.question
TextEnter(initial, validate, isConfirm, k) ==
    /\ txt' = [initial |-> initial, validate |-> validate, confirm |-> isConfirm]
    /\ txtState' = "awaiting"
    /\ linesRead' = <<>>
    /\ rlOpen' = rlOpen \cup {k}
    /\ flowing' = TRUE
    /\ out' = Emit(out, <<IF initial # <<>> THEN "prompt(initial)" ELSE "prompt">>,
                   "text", k)
    /\ outcome' = NoOutcome
    /\ UNCHANGED <<rawMode, listener>>

\* mutation of AnswerOf: the initial value wins over the typed line
AnswerOfPrefersInitial(input, initial) ==
    IF initial # <<>> THEN initial ELSE IF input # <<>> THEN input ELSE <<>>

\* resolve(input || initial || '')
AnswerOf(input, initial) ==
    IF input # <<>> THEN input ELSE IF initial # <<>> THEN initial ELSE <<>>

\* what validate(answer) returns, with its typeof: the message string, or a boolean
Validate(validate, answer) ==
    IF validate = "nonEmpty" /\ answer = <<>>
    THEN [typeof |-> "string", val |-> ValidationMessage]
    ELSE [typeof |-> "boolean", val |-> validate # "refuse"]

\* confirm(message, initial) up to the suspension of the text() it calls
ConfirmEnter(initial, k) ==
    TextEnter(IF initial THEN <<"y">> ELSE <<"n">>, "none", TRUE, k)

\* text called by a caller of its own (its arguments are the inputs)
CallText(initial, validate) ==
    /\ mode = "text"
    /\ alive = "running"
    /\ pc = "idle"
    /\ pc' = "await"
    /\ TextEnter(initial, validate, FALSE, stepIdx)
    /\ UNCHANGED <<cliVars, envVars, orchVars, selVars>>

\* confirm called by a caller of its own
CallConfirm(initial) ==
    /\ mode = "confirm"
    /\ alive = "running"
    /\ pc = "idle"
    /\ pc' = "await"
    /\ ConfirmEnter(initial, stepIdx)
    /\ UNCHANGED <<cliVars, envVars, orchVars, selVars>>

\* mutation of TextLine: rl.close() follows the return instead of sitting in
\* a finally block, so a validation failure leaves the interface open
TextLineClosesOnReturnOnly(input) ==
    /\ alive = "running"
    /\ txtState = "awaiting"
    /\ LET answer == AnswerOf(input, txt.initial)
       IN  outcome' =
             IF txt.validate # "none" /\ Validate(txt.validate, answer).typeof = "string"
             THEN Failure(Validate(txt.validate, answer).val)
             ELSE IF txt.confirm
                  THEN Value(startsWith(toLowerCase(answer), "y"))
                  ELSE Value(answer)
    /\ txtState' = "done"
    /\ linesRead' = Append(linesRead, input)
    /\ rlOpen' = IF outcome'.kind = "error" THEN rlOpen ELSE rlOpen \ {stepIdx}
    /\ flowing' = (outcome'.kind = "error")
    /\ UNCHANGED <<txt, out, rawMode, listener, selVars, cliVars, envVars, pc, orchVars>>

\* the line is read: the rest of text() (validate, return or throw, finally
\* rl.close()), and for a confirm step the rest of confirm()
TextLine(input) ==
    /\ alive = "running"
    /\ txtState = "awaiting"
    /\ LET answer == AnswerOf(input, txt.initial)
       IN  outcome' =
             IF txt.validate # "none" /\ Validate(txt.validate, answer).typeof = "string"
             THEN Failure(Validate(txt.validate, answer).val)
             ELSE IF txt.confirm
                  THEN Value(startsWith(toLowerCase(answer), "y"))
                  ELSE Value(answer)
    /\ txtState' = "done"
    /\ linesRead' = Append(linesRead, input)
    /\ rlOpen' = rlOpen \ {stepIdx}
    /\ flowing' = FALSE
    /\ UNCHANGED <<txt, out, rawMode, listener, selVars, cliVars, envVars, pc, orchVars>>

\* ------------------------------------------------------ step orchestrator
ChoicesRequiredError == "Choices required for select step"

TextSteps ==
    {[type |-> "text", initial |-> i, validate |-> v] :
        i \in TextInitials, v \in StepValidators}
ConfirmSteps == {[type |-> "confirm", initial |-> b] : b \in BOOLEAN}
\* step.initial of a select step: the index of the choice to start on
SelectInitials(n) == IF n = 0 THEN {0} ELSE 0..(n - 1)
SelectSteps ==
    UNION {{[type |-> "select", hasChoices |-> TRUE, choices |-> ChoiceList(n),
             initial |-> k] : k \in SelectInitials(n)} : n \in 0..MaxChoices}
    \cup {[type |-> "select", hasChoices |-> FALSE, choices |-> <<>>, initial |-> 0]}
StepConfigs == TextSteps \cup ConfirmSteps \cup SelectSteps
StepLists == UNION {[1..n -> StepConfigs] : n \in 1..MaxSteps}

\* promptSteps(config) up to the for loop (config.banner is absent)
PromptSteps ==
    /\ mode = "steps"
    /\ alive = "running"
    /\ pc = "idle"
    /\ answers' = <<>>
    /\ out' = Emit(out, <<ClearScreen, CursorHome>>, "promptSteps", 0)
    /\ stepIdx' = 1
    /\ pc' = "loop"
    /\ UNCHANGED <<cliVars, envVars, steps, callerGot, rawMode, listener, flowing, rlOpen,
                   selVars, txtVars, outcome>>

\* processStep(step) for the next step of the loop, up to its suspension
ProcessStep ==
    /\ mode = "steps"
    /\ alive = "running"
    /\ pc = "loop"
    /\ stepIdx <= Len(steps)
    /\ pc' = "await"
    /\ LET step == steps[stepIdx]
       IN  CASE step.type = "text" ->
                  /\ TextEnter(step.initial, step.validate, FALSE, stepIdx)
                  /\ UNCHANGED selVars
             [] step.type = "confirm" ->
                  /\ ConfirmEnter(step.initial, stepIdx)
                  /\ UNCHANGED selVars
             [] step.type = "select" /\ ~step.hasChoices ->
                  /\ outcome' = Failure(ChoicesRequiredError)
                  /\ UNCHANGED <<termVars, selVars, txtVars>>
             [] step.type = "select" /\ step.hasChoices ->
                  /\ SelectEnter(step.choices, 0, stepIdx)
                  /\ UNCHANGED txtVars
    /\ UNCHANGED <<cliVars, envVars, orchVars>>

\* mutation of StoreAnswer: the answer is not recorded
StoreAnswerSkipped ==
    /\ mode = "steps"
    /\ alive = "running"
    /\ pc = "await"
    /\ outcome.kind = "value"
    /\ stepIdx' = stepIdx + 1
    /\ pc' = "loop"
    /\ UNCHANGED <<answers, cliVars, envVars, steps, callerGot, termVars, selVars, txtVars,
                   outcome>>

\* the step resolved: answers[step.name] = answer, and the loop advances
StoreAnswer ==
    /\ mode = "steps"
    /\ alive = "running"
    /\ pc = "await"
    /\ outcome.kind = "value"
    /\ answers' = (StepName(stepIdx) :> outcome.val) @@ answers
    /\ stepIdx' = stepIdx + 1
    /\ pc' = "loop"
    /\ UNCHANGED <<cliVars, envVars, steps, callerGot, termVars, selVars, txtVars, outcome>>

\* promptSteps can leave its try block: the loop is over, or a step threw
LeavesTry ==
    \/ pc = "loop" /\ stepIdx > Len(steps)
    \/ pc = "await" /\ outcome.kind = "error"

\* mutation of PromptStepsFinally: a failure is swallowed, the record returned
PromptStepsCatches ==
    /\ mode = "steps"
    /\ alive = "running"
    /\ LeavesTry
    /\ out' = Emit(out, <<ShowCursor>>, "promptSteps", stepIdx)
    /\ callerGot' = Value(answers)
    /\ pc' = "returned"
    /\ UNCHANGED <<cliVars, envVars, steps, stepIdx, answers, rawMode, listener, flowing,
                   rlOpen, selVars, txtVars, outcome>>

\* mutation of PromptStepsFinally: the cursor is not shown again
PromptStepsNoShow ==
    /\ mode = "steps"
    /\ alive = "running"
    /\ LeavesTry
    /\ callerGot' = IF outcome.kind = "error" THEN outcome ELSE Value(answers)
    /\ pc' = IF outcome.kind = "error" THEN "failed" ELSE "returned"
    /\ UNCHANGED <<cliVars, envVars, steps, stepIdx, answers, termVars, selVars, txtVars,
                   outcome>>

\* the finally block of promptSteps, then `return answers` or the rethrow
PromptStepsFinally ==
    /\ mode = "steps"
    /\ alive = "running"
    /\ LeavesTry
    /\ out' = Emit(out, <<ShowCursor>>, "promptSteps", stepIdx)
    /\ callerGot' = IF outcome.kind = "error" THEN outcome ELSE Value(answers)
    /\ pc' = IF outcome.kind = "error" THEN "failed" ELSE "returned"
    /\ UNCHANGED <<cliVars, envVars, steps, stepIdx, answers, rawMode, listener, flowing,
                   rlOpen, selVars, txtVars, outcome>>

\* ------------------------------------------------ createCommand, createCLI
\* a command line token: `dash` says that the token starts with '--', `s` is
\* the token without that prefix ('--template' is [dash: TRUE, s: "template"])
PlainWords == {"create", "bob"}
DashedWords == {"template", "zzz"}
Tokens ==
    {[dash |-> FALSE, s |-> w] : w \in PlainWords}
        \cup {[dash |-> TRUE, s |-> w] : w \in DashedWords}
ArgvLists == UNION {[1..n -> Tokens] : n \in 0..MaxArgv}

\* a value of parsedArgs / parsedOptions: a token of argv, or undefined
Str(tok) == [kind |-> "string", tok |-> tok]
Undefined == [kind |-> "undefined"]

\* record[key] = value on a record kept as a function from its keys
Put(record, key, value) ==
    [k \in DOMAIN record \cup {key} |-> IF k = key THEN value ELSE record[k]]
Range(seq) == {seq[k] : k \in DOMAIN seq}

\* createCommand({ name }): no options, no arguments, no action handler
createCommand(name) ==
    [name |-> name, options |-> <<>>, arguments |-> <<>>, action |-> FALSE]
\* command.argument('[name]', ...), command.option('--name <name>', ...) and
\* command.action(handler) on the config of the command they are called on
argument(config, name) == [config EXCEPT !.arguments = Append(@, name)]
option(config, name) == [config EXCEPT !.options = Append(@, name)]
action(config) == [config EXCEPT !.action = TRUE]

\* the steps of the commands of config.commands (name and type of each step)
CommandSteps ==
    [n \in {"create", "build"} |->
        IF n = "create"
        THEN <<[type |-> "text", name |-> "name"], [type |-> "select", name |-> "template"]>>
        ELSE <<[type |-> "select", name |-> "template"]>>]
CommandSets == {{}, {"create"}, {"create", "build"}}

\* config.steps.forEach of createProgramCommand, from step k on
RECURSIVE RegisterSteps(_, _, _)
RegisterSteps(config, stepList, k) ==
    IF k > Len(stepList) THEN config
    ELSE RegisterSteps(
             IF stepList[k].type = "text" THEN argument(config, stepList[k].name)
             ELSE IF stepList[k].type = "select" THEN option(config, stepList[k].name)
             ELSE config,
             stepList, k + 1)

\* createProgramCommand(program, name, config): program.command(name) is
\* createCommand({ name }), a command of its own that program keeps no
\* reference to; the steps and the action handler are registered on it
createProgramCommand(name, stepList) ==
    action(RegisterSteps(createCommand(name), stepList, 1))

\* createCLI(config): program = createCommand(), then one createProgramCommand
\* per entry of config.commands
createCLI(names) ==
    /\ mode = "cli"
    /\ cliPc = "idle"
    /\ cmds' = [n \in names \cup {"program"} |->
                  IF n = "program" THEN createCommand("program")
                  ELSE createProgramCommand(n, CommandSteps[n])]
    /\ cliPc' = "built"
    /\ UNCHANGED <<argv, target, argi, parsedArgs, parsedOptions, invoked>>
    /\ UNCHANGED <<envVars, orchVars, termVars, selVars, txtVars, pc, outcome>>

\* a caller of createCommand builds one command with options, arguments and,
\* possibly, an action handler
BuildCommand(options, arguments, hasAction) ==
    /\ mode = "command"
    /\ cliPc = "idle"
    /\ cmds' = [n \in {"cmd"} |->
                  [name |-> "cmd", options |-> options, arguments |-> arguments,
                   action |-> hasAction]]
    /\ cliPc' = "built"
    /\ UNCHANGED <<argv, target, argi, parsedArgs, parsedOptions, invoked>>
    /\ UNCHANGED <<envVars, orchVars, termVars, selVars, txtVars, pc, outcome>>

\* the options and arguments a caller of createCommand declares
OptionLists == {<<>>, <<"template">>}
ArgumentLists == {<<>>, <<"name">>, <<"name", "dir">>}

\* args[i] of parseAsync (i counts from 0); undefined past the end
ArgAt(i) == IF i + 1 \in DOMAIN argv THEN Str(argv[i + 1]) ELSE Undefined

\* command.parseAsync() up to its while loop
parseAsyncEnter(name) ==
    /\ cliPc = "built"
    /\ target' = name
    /\ argi' = 0
    /\ parsedArgs' = <<>>
    /\ parsedOptions' = <<>>
    /\ cliPc' = "parsing"
    /\ UNCHANGED <<argv, cmds, invoked>>
    /\ UNCHANGED <<envVars, orchVars, termVars, selVars, txtVars, pc, outcome>>

\* run() of the object createCLI returns: program.parseAsync()
run ==
    /\ mode = "cli"
    /\ parseAsyncEnter("program")

\* the caller of createCommand parses with the command it built
CallParseAsync ==
    /\ mode = "command"
    /\ parseAsyncEnter("cmd")

\* mutation of ParseStep: the value of an option is not skipped, the loop
\* looks at it again as a token of its own
ParseStepValueSeenAgain ==
    /\ cliPc = "parsing"
    /\ argi < Len(argv)
    /\ LET arg == argv[argi + 1]
           config == cmds[target]
           argDef == Cardinality(DOMAIN parsedArgs) + 1
       IN  IF arg.dash
           THEN /\ parsedOptions' = IF arg.s \in Range(config.options)
                                    THEN Put(parsedOptions, arg.s, ArgAt(argi + 1))
                                    ELSE parsedOptions
                /\ argi' = argi + 1
                /\ UNCHANGED parsedArgs
           ELSE /\ parsedArgs' = IF argDef \in DOMAIN config.arguments
                                 THEN Put(parsedArgs, config.arguments[argDef], Str(arg))
                                 ELSE parsedArgs
                /\ argi' = argi + 1
                /\ UNCHANGED parsedOptions
    /\ UNCHANGED <<argv, cmds, target, invoked, cliPc>>
    /\ UNCHANGED <<envVars, orchVars, termVars, selVars, txtVars, pc, outcome>>

\* one iteration of the while loop of parseAsync
ParseStep ==
    /\ cliPc = "parsing"
    /\ argi < Len(argv)
    /\ LET arg == argv[argi + 1]
           config == cmds[target]
           argDef == Cardinality(DOMAIN parsedArgs) + 1
       IN  IF arg.dash
           THEN /\ IF arg.s \in Range(config.options)
                   THEN /\ parsedOptions' = Put(parsedOptions, arg.s, ArgAt(argi + 1))
                        /\ argi' = argi + 2
                   ELSE /\ argi' = argi + 1
                        /\ UNCHANGED parsedOptions
                /\ UNCHANGED parsedArgs
           ELSE /\ parsedArgs' = IF argDef \in DOMAIN config.arguments
                                 THEN Put(parsedArgs, config.arguments[argDef], Str(arg))
                                 ELSE parsedArgs
                /\ argi' = argi + 1
                /\ UNCHANGED parsedOptions
    /\ UNCHANGED <<argv, cmds, target, invoked, cliPc>>
    /\ UNCHANGED <<envVars, orchVars, termVars, selVars, txtVars, pc, outcome>>

\* parseAsync after the loop: the action handler of the parsed command, if it
\* has one, is called with parsedArgs and parsedOptions
ParseEnd ==
    /\ cliPc = "parsing"
    /\ argi >= Len(argv)
    /\ invoked' = IF cmds[target].action
                  THEN Append(invoked, [cmd |-> target, args |-> parsedArgs,
                                        options |-> parsedOptions])
                  ELSE invoked
    /\ cliPc' = "done"
    /\ UNCHANGED <<argv, cmds, target, argi, parsedArgs, parsedOptions>>
    /\ UNCHANGED <<envVars, orchVars, termVars, selVars, txtVars, pc, outcome>>

\* ---------------------------------------------------------- specification
\* no prompt has been called
PromptIdle ==
    /\ alive = "running"
    /\ pc = "idle"
    /\ stepIdx = 0
    /\ answers = <<>>
    /\ callerGot = NoOutcome
    /\ out = <<>>
    /\ rawMode = FALSE
    /\ listener = FALSE
    /\ flowing = FALSE
    /\ rlOpen = {}
    /\ selStep = 0
    /\ choices = <<>>
    /\ initialIndex = 0
    /\ selectedIndex = 0
    /\ selState = "idle"
    /\ keys = <<>>
    /\ nkeys = 0
    /\ promise = NoOutcome
    /\ resolveCalls = 0
    /\ rawOffCalls = 0
    /\ txt = NoText
    /\ txtState = "idle"
    /\ linesRead = <<>>
    /\ outcome = NoOutcome

\* no command has been created
CliIdle ==
    /\ cmds = <<>>
    /\ target = "none"
    /\ argi = 0
    /\ parsedArgs = <<>>
    /\ parsedOptions = <<>>
    /\ invoked = <<>>
    /\ cliPc = "idle"

Init ==
    /\ mode \in {"select", "steps", "text", "confirm"}
    /\ isTTY \in BOOLEAN
    /\ steps \in (IF mode = "steps" THEN StepLists ELSE {<<>>})
    /\ PromptIdle
    /\ argv = <<>>
    /\ CliIdle

Next ==
    \/ \E n \in 0..MaxChoices, init \in (-1)..MaxChoices : CallSelect(n, init)
    \/ \E name \in KeyNames : KeyPress(name)
    \/ SelectFinally
    \/ Interrupt
    \/ PromptSteps
    \/ ProcessStep
    \/ \E initial \in TextInitials, validate \in Validators : CallText(initial, validate)
    \/ \E initial \in BOOLEAN : CallConfirm(initial)
    \/ \E input \in (IF mode = "steps" THEN StepLines ELSE Lines) : TextLine(input)
    \/ StoreAnswer
    \/ PromptStepsFinally

Spec == Init /\ [][Next]_vars

\* the command line front end
InitCLI ==
    /\ mode \in {"cli", "command"}
    /\ isTTY = TRUE
    /\ steps = <<>>
    /\ PromptIdle
    /\ argv \in ArgvLists
    /\ CliIdle

NextCLI ==
    \/ \E names \in CommandSets : createCLI(names)
    \/ run
    \/ \E options \in OptionLists, arguments \in ArgumentLists, hasAction \in BOOLEAN :
           BuildCommand(options, arguments, hasAction)
    \/ CallParseAsync
    \/ ParseStep
    \/ ParseEnd

SpecCLI == InitCLI /\ [][NextCLI]_vars

\* ================================================================= claims
\* the precondition of select: a non-empty list and an index into it
ValidArgs == Len(choices) >= 1 /\ initialIndex \in 0..(Len(choices) - 1)

\* select has handed control back to its caller, which has not moved on yet
Returned == selState \in {"resolved", "rejected"} /\ pc = "await" /\ selStep = stepIdx

\* the step of the transition is the handling of key `name` by handleKeypress
Handled(name) == keys' = Append(keys, name)

\* C1: in a select session over a non-empty choice list started at a valid
\* initial index, selectedIndex stays in [0, len(choices)-1] after any
\* sequence of key events; 'up' at index 0 and 'down' at the last index leave
\* it unchanged (saturating, never wrapping).
C1_IndexSaturates ==
    /\ []((selState # "idle" /\ ValidArgs) => selectedIndex \in 0..(Len(choices) - 1))
    /\ [][(ValidArgs /\ Handled("up") /\ selectedIndex = 0) => selectedIndex' = 0]_vars
    /\ [][(ValidArgs /\ Handled("down") /\ selectedIndex = Len(choices) - 1)
            => selectedIndex' = selectedIndex]_vars

\* C1 witness: more 'down' events than there is room below the initial index
\* were handled, and the selection rests on the last index.
C1_Witness ==
    /\ selState = "awaiting"
    /\ ValidArgs
    /\ keys # <<>>
    /\ \A i \in DOMAIN keys : keys[i] = "down"
    /\ Len(keys) > Len(choices) - 1 - initialIndex
    /\ selectedIndex = Len(choices) - 1

\* the fold of the claim: up -> max(0, i-1), down -> min(len-1, i+1), else i
FoldStep(name, i, len) ==
    IF name = "up" THEN (IF i - 1 > 0 THEN i - 1 ELSE 0)
    ELSE IF name = "down" THEN (IF i + 1 < len - 1 THEN i + 1 ELSE len - 1)
    ELSE i
RECURSIVE FoldKeys(_, _, _)
FoldKeys(ks, i, len) ==
    IF ks = <<>> THEN i ELSE FoldKeys(Tail(ks), FoldStep(Head(ks), i, len), len)

C3_ReleasedOnReturn ==
    (Returned /\ ValidArgs) =>
        /\ ~rawMode
        /\ ~listener
        /\ LastCursor(out) = ShowCursor

\* show-cursor sequences written by select in the current session
ShowsBySelect ==
    Cardinality({i \in DOMAIN out :
        out[i].tok = ShowCursor /\ out[i].by = "select" /\ out[i].step = selStep})

\* C4 (as claimed, for the exit by 'return'): when a select session has ended
\* by resolving, its terminal cleanup (show-cursor written, raw mode left) has
\* executed exactly once.
C4_CleanupOnce ==
    (selState = "resolved" /\ ValidArgs) => (ShowsBySelect = 1 /\ rawOffCalls = 1)

\* C5: 'return' resolves a select session exactly once, and a key event that
\* arrives after the resolving 'return' is not processed: it changes neither
\* selectedIndex nor the terminal output nor the settled value.
C5_NoKeyAfterResolve ==
    /\ [](resolveCalls <= 1)
    /\ [](selState \in {"resolving", "resolved"} => resolveCalls = 1)
    /\ [][(selState \in {"resolving", "resolved"} /\ nkeys' = nkeys + 1) =>
            (/\ selectedIndex' = selectedIndex
             /\ out' = out
             /\ keys' = keys
             /\ resolveCalls' = resolveCalls
             /\ promise' = promise
             /\ selState' = selState)]_vars

\* C5 witness: the first select session has returned and a key event was
\* delivered afterwards (more events delivered than handled).
C5_Witness ==
    /\ selState = "resolved"
    /\ selStep <= 1
    /\ nkeys > Len(keys) + 1

\* C6 (as claimed): select called with an empty choice list or with an
\* initialIndex outside the list fails with InvalidArgument before any terminal
\* mutation: it writes nothing and never enters raw mode.
C6_RejectsInvalidArguments ==
    (selState # "idle" /\ ~ValidArgs) =>
        /\ selState = "rejected"
        /\ outcome.kind = "error"
        /\ outcome.val = "InvalidArgument"
        /\ ~rawMode
        /\ \A i \in DOMAIN out : out[i].by # "select"

\* C7 (as claimed): when the process is ended from outside while a select
\* session awaits key events, the cleanup has run before the process ends:
\* cursor shown, raw mode left, listener removed.
C7_CleanupOnInterrupt ==
    (alive = "killed" /\ selState = "awaiting") =>
        /\ LastCursor(out) = ShowCursor
        /\ ~rawMode
        /\ ~listener

\* tokens written by a prompt (not by promptSteps itself)
ByStep(i) == out[i].by \in {"select", "text"}

\* C8: promptSteps processes the steps in declaration order and one at a
\* time: the prompt of step k+1 writes nothing and acquires nothing until the
\* answer of step k is stored under step k's name; no two steps hold the
\* terminal at the same time.
C8_StepsInOrder ==
    mode = "steps" =>
        /\ \A i \in DOMAIN out : ByStep(i) =>
              \A j \in 1..(out[i].step - 1) : StepName(j) \in DOMAIN answers
        /\ \A i \in 1..(Len(out) - 1) : out[i].step <= out[i + 1].step
        /\ (rawMode \/ listener) => (selStep = stepIdx /\ pc = "await")
        /\ rlOpen \subseteq {stepIdx}
        /\ ~(selState = "awaiting" /\ txtState = "awaiting")
        /\ DOMAIN answers = {StepName(j) : j \in 1..(stepIdx - 1)}

\* C8 witness: the second step has written its prompt, after the first step's
\* answer was stored.
C8_Witness ==
    /\ mode = "steps"
    /\ stepIdx = 2
    /\ pc = "await"
    /\ \E i \in DOMAIN out : ByStep(i) /\ out[i].step = 2
    /\ StepName(1) \in DOMAIN answers

\* C9: if a step of promptSteps fails, orchestration aborts: no later step is
\* started, no answer record (not even a partial one) reaches the caller, and
\* the same failure is propagated to the caller.  (When the process ends on an
\* uncaught exception or a signal, nothing reaches the caller and no later
\* step is started either.)
C9_FailureAborts ==
    /\ []((mode = "steps" /\ alive # "running") =>
            /\ callerGot.kind = "none"
            /\ \A i \in DOMAIN out : ByStep(i) => out[i].step <= stepIdx)
    /\ []((mode = "steps" /\ outcome.kind = "error") =>
            /\ pc \in {"await", "failed"}
            /\ callerGot.kind # "value"
            /\ pc = "failed" => (callerGot.kind = "error" /\ callerGot.val = outcome.val)
            /\ \A i \in DOMAIN out : ByStep(i) => out[i].step <= stepIdx)
    /\ []((mode = "steps" /\ pc = "failed") => outcome.kind = "error")
    /\ [][(mode = "steps" /\ outcome.kind = "error") =>
            (stepIdx' = stepIdx /\ answers' = answers /\ outcome'.kind = "error")]_vars

\* C9 witness: promptSteps threw the failure of its second step after the
\* answer of the first step had been collected.
C9_Witness ==
    /\ pc = "failed"
    /\ stepIdx = 2
    /\ DOMAIN answers = {StepName(1)}
    /\ callerGot.kind = "error"

\* C10: whenever promptSteps finishes, by returning the record or by
\* propagating a failure, the last thing written is the show-cursor sequence
\* of promptSteps itself, after everything the steps wrote.
C10_ShowCursorLast ==
    (mode = "steps" /\ pc \in {"returned", "failed"}) =>
        /\ Len(out) >= 1
        /\ out[Len(out)].tok = ShowCursor
        /\ out[Len(out)].by = "promptSteps"

\* C10 witness: promptSteps propagated the failure of a select step that had
\* left the cursor hidden.
C10_Witness ==
    /\ pc = "failed"
    /\ selState = "rejected"
    /\ Len(out) >= 2
    /\ LastCursor(SubSeq(out, 1, Len(out) - 1)) = HideCursor

\* text (or the text call of confirm) has handed control back to its caller,
\* which has not moved on yet
TextReturned ==
    /\ pc = "await"
    /\ txtState = "done"
    /\ \/ mode \in {"text", "confirm"}
       \/ /\ mode = "steps"
          /\ stepIdx <= Len(steps)
          /\ steps[stepIdx].type \in {"text", "confirm"}

\* the answer of the claims: the typed line, or the initial when it is empty
\* (an absent initial is the empty string)
TypedOrInitial == IF linesRead[1] # <<>> THEN linesRead[1] ELSE txt.initial

\* C11: the text prompt returns the typed line verbatim when it is non-empty;
\* when the line read is empty it returns initial if an initial is present,
\* and the empty string otherwise.
C11_TextAnswer ==
    (TextReturned /\ ~txt.confirm) =>
        /\ Len(linesRead) = 1
        /\ txt.validate = "none" => outcome.kind = "value"
        /\ outcome.kind = "value" => outcome.val = TypedOrInitial

\* C11 witness: an empty line was read and the initial value was returned.
C11_Witness ==
    /\ TextReturned
    /\ ~txt.confirm
    /\ linesRead = <<(<<>>)>>
    /\ txt.initial # <<>>
    /\ outcome.kind = "value"
    /\ outcome.val = txt.initial

\* prompt lines written by the text call of the current step
PromptsWritten ==
    Cardinality({i \in DOMAIN out : out[i].by = "text" /\ out[i].step = stepIdx})

\* C12: if validate is supplied and returns a string for the answer, the text
\* prompt fails with an error carrying exactly that string; it reads exactly
\* one line and prompts once, and its readline interface is closed when the
\* failure reaches the caller.  If validate returns a boolean the answer is
\* returned, the interface closed likewise.
C12_ValidateOutcome ==
    (TextReturned /\ ~txt.confirm /\ txt.validate # "none") =>
        LET r == Validate(txt.validate, TypedOrInitial)
        IN  /\ Len(linesRead) = 1
            /\ PromptsWritten = 1
            /\ stepIdx \notin rlOpen
            /\ r.typeof = "string" => (outcome.kind = "error" /\ outcome.val = r.val)
            /\ r.typeof = "boolean" =>
                  (outcome.kind = "value" /\ outcome.val = TypedOrInitial)

\* C12 witness: validate returned its message and text threw it.
C12_Witness ==
    /\ TextReturned
    /\ txt.validate = "nonEmpty"
    /\ outcome.kind = "error"
    /\ outcome.val = ValidationMessage
    /\ rlOpen = {}

\* surrounding whitespace removed
RECURSIVE TrimLeft(_)
TrimLeft(str) ==
    IF str # <<>> /\ Head(str) = " " THEN TrimLeft(Tail(str)) ELSE str
RECURSIVE TrimRight(_)
TrimRight(str) ==
    IF str # <<>> /\ str[Len(str)] = " "
    THEN TrimRight(SubSeq(str, 1, Len(str) - 1))
    ELSE str
Trim(str) == TrimRight(TrimLeft(str))

\* C13 (as claimed): confirm returns true if and only if the answer (the typed
\* line, or the default 'y'/'n' when the line is empty), after trimming
\* surrounding whitespace and ignoring case, starts with 'y'.
C13_ConfirmTrimmed ==
    (TextReturned /\ txt.confirm /\ outcome.kind = "value") =>
        (outcome.val <=> startsWith(toLowerCase(Trim(TypedOrInitial)), "y"))

\* C14 (as claimed): promptSteps feeds every step's declared initial value to
\* that step's prompt; a select step declared with initial selection k starts
\* its menu on k, and 'return' with no navigation resolves to choices[k].value.
C14_InitialFed ==
    (mode = "steps" /\ pc = "await" /\ stepIdx <= Len(steps)) =>
        LET step == steps[stepIdx]
        IN  CASE step.type = "text" -> txt.initial = step.initial
              [] step.type = "confirm" ->
                    txt.initial = (IF step.initial THEN <<"y">> ELSE <<"n">>)
              [] step.type = "select" ->
                    (step.hasChoices /\ selStep = stepIdx) =>
                        /\ initialIndex = step.initial
                        /\ keys = <<>> =>
                              /\ selState = "awaiting" => selectedIndex = step.initial
                              /\ promise.kind = "value" =>
                                    promise.val = step.choices[step.initial + 1].value

\* the tokens written by the step of the transition
Written == [i \in 1..(Len(out') - Len(out)) |-> out'[Len(out) + i].tok]
Count(toks, tok) == Cardinality({i \in DOMAIN toks : toks[i] = tok})
LineIdx(toks) == {i \in DOMAIN toks : toks[i] \in {"line>", "line "}}
EraseIdx(toks) == {i \in DOMAIN toks : toks[i] \in {CursorUp, ClearLine}}

\* C16: for a select menu of N >= 1 choices, every repaint after the first
\* paint writes exactly N cursor-up and N clear-line sequences before painting
\* exactly N choice lines; the first paint is preceded by no erase.
C16_EraseMatchesPaint ==
    [][(Len(choices') >= 1 /\ LineIdx(Written) # {}) =>
          /\ Cardinality(LineIdx(Written)) = Len(choices')
          /\ IF Count(Written, HideCursor) > 0
             THEN EraseIdx(Written) = {}
             ELSE /\ Count(Written, CursorUp) = Len(choices')
                  /\ Count(Written, ClearLine) = Len(choices')
                  /\ \A i \in EraseIdx(Written), j \in LineIdx(Written) : i < j]_vars

\* C16 witness: a menu of two choices has been repainted.
C16_Witness ==
    /\ selState = "awaiting"
    /\ Len(choices) = 2
    /\ Len(keys) >= 1
    /\ Count([i \in DOMAIN out |-> out[i].tok], CursorUp) = 2 * Len(keys)

\* one erase+repaint cycle of a menu of n choices with choice `sel` selected
OneCycle(n, sel) ==
    [i \in 1..(3 * n + 1) |->
        IF i <= 2 * n THEN (IF i % 2 = 1 THEN CursorUp ELSE ClearLine)
        ELSE IF i = 2 * n + 1 THEN ColumnStart
        ELSE IF i - 2 * n - 2 = sel THEN "line>" ELSE "line "]

\* C17: every 'up' or 'down' key event handled in a select session triggers
\* exactly one erase+repaint cycle, also when the index does not change
\* because the selection is at index 0 ('up') or at the last index ('down').
C17_OneCyclePerKey ==
    [][(Handled("up") \/ Handled("down")) =>
          Written = OneCycle(Len(choices), selectedIndex')]_vars

\* C17 witness: 'up' was handled at index 0 of a non-empty menu.
C17_Witness ==
    /\ selState = "awaiting"
    /\ Len(choices) >= 1
    /\ initialIndex = 0
    /\ keys = <<"up">>
    /\ selectedIndex = 0

\* tokens written by select in the current session
SessionTokens ==
    Cardinality({i \in DOMAIN out : out[i].by = "select" /\ out[i].step = selStep})

\* C18 (as claimed): a key whose name is none of up, down, return is ignored:
\* after any number of such keys the selection is where it started and the
\* session has written nothing but its first paint (hide-cursor, the message,
\* the column reset and one line per choice).
C18_OtherKeysIgnored ==
    (ValidArgs /\ selState = "awaiting" /\ keys # <<>>
        /\ \A i \in DOMAIN keys : keys[i] = "space") =>
        /\ selectedIndex = initialIndex
        /\ SessionTokens = 3 + Len(choices)

\* C19 (as claimed): in a select session over a non-empty choice list, once
\* 'return' was delivered while the session awaited keys (the key listener is
\* removed), the promise is settled with a value: the session is never left
\* with its listener removed and its promise pending.
C19_ReturnSettles ==
    (Len(choices) >= 1 /\ isTTY /\ selState # "idle" /\ ~listener) =>
        promise.kind = "value"

\* the command of config.commands that argv names, if it names one
NamedCommand ==
    IF argv # <<>> /\ ~argv[1].dash /\ argv[1].s \in DOMAIN cmds \ {"program"}
    THEN {argv[1].s}
    ELSE {}

\* C15 (as claimed): when the CLI built by createCLI is run with an argv that
\* names a command registered in config.commands, parsing dispatches to that
\* command: once parseAsync is through, its action handler has been invoked.
C15_DispatchesToCommand ==
    (mode = "cli" /\ cliPc = "done") =>
        \A name \in NamedCommand : \E k \in DOMAIN invoked : invoked[k].cmd = name

\* token j of args is the value of a registered '--x' right before it, that
\* '--x' not being the value of a registered option itself
RECURSIVE IsValue(_, _, _)
IsValue(args, opts, j) ==
    /\ j > 1
    /\ args[j - 1].dash
    /\ args[j - 1].s \in opts
    /\ ~IsValue(args, opts, j - 1)
\* token j is a registered '--x' read as an option
IsFlag(args, opts, j) == args[j].dash /\ args[j].s \in opts /\ ~IsValue(args, opts, j)
\* token j is a positional: no '--', and not the value of an option
IsPositional(args, opts, j) == ~args[j].dash /\ ~IsValue(args, opts, j)
\* the rank of positional j among the positionals of args
Rank(args, opts, j) ==
    Cardinality({m \in 1..j : IsPositional(args, opts, m)})

\* C20: when parseAsync is through with argv, every registered '--x' read as
\* an option has taken exactly the next token as its value (options[x] is the
\* token after the last such '--x', which is no positional), every token
\* without '--' that is not such a value is assigned to the declared
\* arguments in declaration order, one token per argument, and positionals
\* beyond the declared arguments are dropped.
C20_TokensAssigned ==
    (cliPc = "done") =>
        LET opts == Range(cmds[target].options)
            decl == cmds[target].arguments
            flags == {j \in DOMAIN argv : IsFlag(argv, opts, j)}
            pos == {j \in DOMAIN argv : IsPositional(argv, opts, j)}
        IN  /\ DOMAIN parsedOptions = {argv[j].s : j \in flags}
            /\ \A j \in flags :
                  (\A m \in flags : argv[m].s = argv[j].s => m <= j) =>
                      parsedOptions[argv[j].s] = ArgAt(j)
            /\ DOMAIN parsedArgs
                  = {decl[Rank(argv, opts, j)] :
                        j \in {m \in pos : Rank(argv, opts, m) <= Len(decl)}}
            /\ \A j \in pos :
                  Rank(argv, opts, j) <= Len(decl) =>
                      parsedArgs[decl[Rank(argv, opts, j)]] = Str(argv[j])

\* C20 witness: '--template bob create' was parsed by a command with the
\* option and an argument: bob is the value, create the first argument.
C20_Witness ==
    /\ cliPc = "done"
    /\ Len(argv) = 3
    /\ argv[1] = [dash |-> TRUE, s |-> "template"]
    /\ ~argv[2].dash
    /\ ~argv[3].dash
    /\ DOMAIN parsedOptions = {"template"}
    /\ parsedOptions["template"] = Str(argv[2])
    /\ "name" \in DOMAIN parsedArgs
    /\ parsedArgs["name"] = Str(argv[3])

====
